---- MODULE Spec2Model ----
(***************************************************************************)
(* A model of the society events application (src/app.py): session-based  *)
(* authentication, the three role guards, event CRUD and the RSVP toggle   *)
(* (HTML and JSON variants), with the two best-effort collaborators        *)
(* (Firestore audit log, RSVP cloud function).                             *)
(*                                                                         *)
(* Spec      every request runs to completion before the next one starts;  *)
(*           one browser sends them, logging in and out as any user.       *)
(* SpecTwo   the same for two browsers, each with its own session, on the  *)
(*           registration, session and role-management routes.             *)
(* SpecConc  two workers serve toggle requests whose reads and whose       *)
(*           commit are separate steps, so requests interleave at the      *)
(*           database.                                                     *)
(*                                                                         *)
(* Rows carry the columns the handlers branch on: names, timestamps and    *)
(* image URLs are left out, and form input is taken to be well-formed.     *)
(***************************************************************************)
EXTENDS Integers, Sequences, FiniteSets, TLC

VARIABLES
    users,       \* table users: sequence of rows, the row's id is its index
    events,      \* table events: function from event id to row
    rsvps,       \* table rsvps: set of rows [user_id, event_id, status]
    session,     \* per browser: the Flask session cookie [user, role]
    inflight,    \* per worker: a toggle request between its reads and its commit
    last,        \* the last completed request: route, response, side effects
    lastToggle   \* history: per (user, event) the status the last toggle asked for

vars == <<users, events, rsvps, session, inflight, last, lastToggle>>

-----------------------------------------------------------------------------
(* Bounds and input sets *)

MaxEventId == 1

None == "None"

\* Browsers, each with its own session cookie.  Under Spec and SpecConc one
\* browser sends requests; under SpecTwo both do.
Clients == {"c1", "c2"}
OneBrowser == {"c1"}
Workers == {"w1", "w2"}

\* Text typed into the email field, as sequences of characters.
RawEmails == { <<"a">>, <<" ", "A">>, <<"b">>, <<"B", " ">> }
Passwords == {"pw1", "pw2"}
RegisterPasswords == {"pw1"}
Salts == {"s1"}
Titles == {"t1", "t2"}
Positions == {"Chair"}
Methods == {"GET", "POST"}

\* The "action" field of the RSVP form and the "going" member of the JSON body.
FormActions == {"going", "cancelled", None}
JsonGoing == {"true", "false", None}

\* What a collaborator does when called: not configured, answers, or fails.
Health == {"unconfigured", "ok", "fail"}

Roles == {"member", "committee", "admin"}

-----------------------------------------------------------------------------
(* Python and library helpers *)

\* session.get("user") when the session holds no user.
NoEmail == <<None>>

\* Python truthiness of a session value: None and "" are falsy.
Truthy(v) == v # NoEmail /\ v # <<>>

LowerChar(ch) == CASE ch = "A" -> "a" [] ch = "B" -> "b" [] OTHER -> ch

lower(s) == [i \in 1..Len(s) |-> LowerChar(s[i])]

RECURSIVE lstrip(_)
lstrip(s) == IF s # <<>> /\ Head(s) = " " THEN lstrip(Tail(s)) ELSE s

RECURSIVE rstrip(_)
rstrip(s) == IF s # <<>> /\ s[Len(s)] = " " THEN rstrip(SubSeq(s, 1, Len(s) - 1)) ELSE s

strip(s) == rstrip(lstrip(s))

\* Variant: the email is trimmed but its case is kept.
NormalizeEmailKeepsCase(raw) == strip(raw)

\* request.form["email"].strip().lower()
NormalizeEmail(raw) == lower(strip(raw))

\* werkzeug: a salted digest of the password, and its verification.
generate_password_hash(password, salt) ==
    [salt |-> salt, digest |-> <<salt, password>>]

\* Variant: any password verifies.
check_password_hash_any(pwhash, password) == pwhash.salt \in Salts

check_password_hash(pwhash, password) ==
    pwhash.digest = <<pwhash.salt, password>>

Min(S) == CHOOSE x \in S : \A y \in S : x <= y
Max(S) == CHOOSE x \in S : \A y \in S : x >= y

-----------------------------------------------------------------------------
(* The relational store *)

UserIds == 1..Len(users)
EventIds == DOMAIN events

\* User.query.filter_by(email=email).first(): the row's id, 0 for None.
UserByEmail(email) ==
    LET m == {i \in UserIds : users[i].email = email}
    IN  IF m = {} THEN 0 ELSE Min(m)

\* The id the store gives a new events row (INTEGER PRIMARY KEY of the default
\* SQLite store: one more than the largest id in the table).
NextEventId == IF EventIds = {} THEN 1 ELSE Max(EventIds) + 1

RsvpRows(rs, uid, eid) == {r \in rs : r.user_id = uid /\ r.event_id = eid}

\* RSVP.query.filter_by(user_id=..., event_id=...).first(): the status of the
\* row found, None when there is none.
RsvpLookup(rs, uid, eid) ==
    LET m == RsvpRows(rs, uid, eid)
    IN  IF m = {} THEN None ELSE (CHOOSE r \in m : TRUE).status

\* The flush of db.session.commit() for an RSVP object of the session:
\* loaded = None is a new object (INSERT, rejected by the composite primary
\* key when a row with the key exists); otherwise the object was loaded with
\* status `loaded` (an UPDATE by key when the status changed, which fails when
\* the row is gone; no statement when it did not change).
RsvpFlush(rs, uid, eid, loaded, status) ==
    LET m == RsvpRows(rs, uid, eid)
        row == [user_id |-> uid, event_id |-> eid, status |-> status]
    IN  IF loaded = None
        THEN IF m # {}
             THEN [ok |-> FALSE, rsvps |-> rs, error |-> "IntegrityError"]
             ELSE [ok |-> TRUE, rsvps |-> rs \cup {row}, error |-> None]
        ELSE IF loaded = status
             THEN [ok |-> TRUE, rsvps |-> rs, error |-> None]
             ELSE IF m = {}
                  THEN [ok |-> FALSE, rsvps |-> rs, error |-> "StaleDataError"]
                  ELSE [ok |-> TRUE, rsvps |-> (rs \ m) \cup {row}, error |-> None]

-----------------------------------------------------------------------------
(* Session and guards *)

NoSession == [user |-> NoEmail, role |-> None]

get_current_user(c) ==
    IF ~Truthy(session[c].user) THEN 0 ELSE UserByEmail(session[c].user)

\* Variant: the wrapper calls the view function without looking at the session.
login_required_open(c) == IF c \in Clients THEN "pass" ELSE "redirect:login"

login_required(c) ==
    IF ~Truthy(session[c].user) THEN "redirect:login" ELSE "pass"

\* Variant: the role is re-read from the users table on every request.
committee_or_admin_required_live(c) ==
    IF ~Truthy(session[c].user) THEN "redirect:login"
    ELSE IF get_current_user(c) = 0
            \/ users[get_current_user(c)].role \notin {"committee", "admin"} THEN "403"
    ELSE "pass"

committee_or_admin_required(c) ==
    IF ~Truthy(session[c].user) THEN "redirect:login"
    ELSE IF session[c].role \notin {"committee", "admin"} THEN "403"
    ELSE "pass"

\* Variant: the wrapper checks the login but not the role.
admin_required_any_role(c) ==
    IF ~Truthy(session[c].user) THEN "redirect:login" ELSE "pass"

admin_required(c) ==
    IF ~Truthy(session[c].user) THEN "redirect:login"
    ELSE IF session[c].role # "admin" THEN "403"
    ELSE "pass"

-----------------------------------------------------------------------------
(* Collaborators *)

\* Variant: a failing add is not caught.
log_action_uncaught(sink) ==
    IF sink = "unconfigured" THEN [raised |-> FALSE, audit |-> "skipped"]
    ELSE IF sink = "ok" THEN [raised |-> FALSE, audit |-> "written"]
    ELSE [raised |-> TRUE, audit |-> "failed"]

\* log_action: nothing without a client; otherwise one add, every exception
\* of which is caught.
log_action(sink) ==
    IF sink = "unconfigured" THEN [raised |-> FALSE, audit |-> "skipped"]
    ELSE IF sink = "ok" THEN [raised |-> FALSE, audit |-> "written"]
    ELSE [raised |-> FALSE, audit |-> "failed"]

\* call_rsvp_cloud_function: nothing without a URL; otherwise one POST, every
\* exception of which is caught.
call_rsvp_cloud_function(relay) ==
    IF relay = "unconfigured" THEN [raised |-> FALSE, notify |-> "skipped"]
    ELSE IF relay = "ok" THEN [raised |-> FALSE, notify |-> "sent"]
    ELSE [raised |-> FALSE, notify |-> "failed"]

-----------------------------------------------------------------------------
(* Request handlers: each gives the store, the session and the response the *)
(* request leaves behind.                                                   *)

\* The outcome of a request that changed nothing yet.
Base(c) ==
    [users |-> users, events |-> events, rsvps |-> rsvps, sess |-> session[c],
     resp |-> "none", ran |-> FALSE, audit |-> "none", notify |-> "none",
     note |-> None, rows |-> {}]

\* A guard's wrapper answered instead of the view function.
Rejected(c, verdict) == [Base(c) EXCEPT !.resp = verdict]

\* Variant: registration gives the new user the committee role.
register_as_committee(c, method, raw_email, password, salt) ==
    LET email == NormalizeEmail(raw_email)
        existing == UserByEmail(email)
        user == [email |-> email,
                 password_hash |-> generate_password_hash(password, salt),
                 role |-> "committee",
                 committee_position |-> None]
        b == [Base(c) EXCEPT !.ran = TRUE,
                             !.note = IF raw_email = email THEN "same" ELSE "normalized"]
    IN  IF method # "POST" THEN [b EXCEPT !.resp = "200:page"]
        ELSE IF existing # 0 THEN [b EXCEPT !.resp = "200:User already exists"]
        ELSE [b EXCEPT !.users = Append(users, user), !.resp = "redirect:login"]

register(c, method, raw_email, password, salt) ==
    LET email == NormalizeEmail(raw_email)
        existing == UserByEmail(email)
        user == [email |-> email,
                 password_hash |-> generate_password_hash(password, salt),
                 role |-> "member",
                 committee_position |-> None]
        b == [Base(c) EXCEPT !.ran = TRUE,
                             !.note = IF raw_email = email THEN "same" ELSE "normalized"]
    IN  IF method # "POST" THEN [b EXCEPT !.resp = "200:page"]
        ELSE IF existing # 0 THEN [b EXCEPT !.resp = "200:User already exists"]
        ELSE [b EXCEPT !.users = Append(users, user), !.resp = "redirect:login"]

login(c, method, raw_email, password, sink) ==
    LET email == NormalizeEmail(raw_email)
        uid == UserByEmail(email)
        b == [Base(c) EXCEPT !.ran = TRUE]
    IN  IF method # "POST" THEN [b EXCEPT !.resp = "200:page"]
        ELSE IF uid # 0 /\ check_password_hash(users[uid].password_hash, password)
        THEN LET s == [user |-> users[uid].email, role |-> users[uid].role]
                 la == log_action(sink)
             IN  [b EXCEPT !.sess = s, !.audit = la.audit,
                           !.resp = IF la.raised THEN "500" ELSE "redirect:home"]
        ELSE [b EXCEPT !.resp = "200:Invalid credentials"]

logout(c) ==
    [Base(c) EXCEPT !.ran = TRUE, !.sess = NoSession, !.resp = "redirect:home"]

make_me_admin(c) ==
    LET g == login_required(c)
        uid == get_current_user(c)
        b == [Base(c) EXCEPT !.ran = TRUE]
    IN  IF g # "pass" THEN Rejected(c, g)
        ELSE IF uid = 0 THEN [b EXCEPT !.resp = "500", !.note = "AttributeError"]
        ELSE [b EXCEPT !.users = [users EXCEPT ![uid].role = "admin"],
                       !.sess = [session[c] EXCEPT !.role = "admin"],
                       !.resp = "200:You are now admin."]

admin_users(c, method, user_id, is_committee, position, sink) ==
    LET g == admin_required(c)
        b == [Base(c) EXCEPT !.ran = TRUE]
    IN  IF g # "pass" THEN Rejected(c, g)
        ELSE IF method # "POST" THEN [b EXCEPT !.resp = "200:page"]
        ELSE IF user_id \notin UserIds THEN [b EXCEPT !.resp = "404"]
        ELSE LET u == IF is_committee
                      THEN [users[user_id] EXCEPT !.role = "committee",
                                                  !.committee_position = position]
                      ELSE [users[user_id] EXCEPT !.role = "member",
                                                  !.committee_position = None]
                 la == log_action(sink)
             IN  [b EXCEPT !.users = [users EXCEPT ![user_id] = u],
                           !.audit = la.audit,
                           !.resp = IF la.raised THEN "500" ELSE "redirect:admin_users"]

\* The log page reads the audit store with no handler around the read.
admin_logs(c, sink) ==
    LET g == admin_required(c)
        b == [Base(c) EXCEPT !.ran = TRUE]
    IN  IF g # "pass" THEN Rejected(c, g)
        ELSE IF sink = "ok" THEN [b EXCEPT !.resp = "200:page"]
        ELSE [b EXCEPT !.resp = "500"]

\* The home page takes whatever get_current_user() returns, None included.
home(c) ==
    [Base(c) EXCEPT !.ran = TRUE, !.resp = "200:page",
                    !.note = IF get_current_user(c) = 0 THEN "anonymous" ELSE "user"]

\* The event page looks the RSVP up only when there is a current user.
event_detail(c, event_id) ==
    LET uid == get_current_user(c)
        b == [Base(c) EXCEPT !.ran = TRUE]
    IN  IF event_id \notin EventIds THEN [b EXCEPT !.resp = "404"]
        ELSE [b EXCEPT !.resp = "200:page",
                       !.note = IF uid = 0 THEN "anonymous"
                                ELSE RsvpLookup(rsvps, uid, event_id)]

\* Variant: the listing query without its status filter.
MyRsvpRowsAnyStatus(uid) ==
    {r.event_id : r \in {x \in rsvps : x.user_id = uid /\ x.event_id \in EventIds}}

\* The query of my_rsvps: RSVP joined with Event on the event id, filtered to
\* the user's rows of status "going"; the page shows one entry per row, given
\* here by the row's event (the order, by start time, is not kept).
MyRsvpRows(uid) ==
    {r.event_id : r \in {x \in rsvps : /\ x.user_id = uid
                                       /\ x.status = "going"
                                       /\ x.event_id \in EventIds}}

my_rsvps(c) ==
    LET g == login_required(c)
        uid == get_current_user(c)
        b == [Base(c) EXCEPT !.ran = TRUE]
    IN  IF g # "pass" THEN Rejected(c, g)
        ELSE IF uid = 0 THEN [b EXCEPT !.resp = "500", !.note = "AttributeError"]
        ELSE [b EXCEPT !.rows = MyRsvpRows(uid), !.resp = "200:page"]

admin_event_new(c, method, title) ==
    LET g == committee_or_admin_required(c)
        creator == get_current_user(c)
        b == [Base(c) EXCEPT !.ran = TRUE]
    IN  IF g # "pass" THEN Rejected(c, g)
        ELSE IF method # "POST" THEN [b EXCEPT !.resp = "200:page"]
        ELSE IF creator = 0 THEN [b EXCEPT !.resp = "500", !.note = "AttributeError"]
        ELSE [b EXCEPT !.events = (NextEventId :> [title |-> title])
                                      @@ events,
                       !.resp = "redirect:list_events"]

admin_event_edit(c, method, event_id, title) ==
    LET g == committee_or_admin_required(c)
        b == [Base(c) EXCEPT !.ran = TRUE]
    IN  IF g # "pass" THEN Rejected(c, g)
        ELSE IF event_id \notin EventIds THEN [b EXCEPT !.resp = "404"]
        ELSE IF method # "POST" THEN [b EXCEPT !.resp = "200:page"]
        ELSE [b EXCEPT !.events = [events EXCEPT ![event_id].title = title],
                       !.resp = "redirect:event_detail"]

\* Variant: the event row is deleted, its RSVP rows are not.
admin_event_delete_keeps_rsvps(c, event_id) ==
    LET g == committee_or_admin_required(c)
        b == [Base(c) EXCEPT !.ran = TRUE]
    IN  IF g # "pass" THEN Rejected(c, g)
        ELSE IF event_id \notin EventIds THEN [b EXCEPT !.resp = "404"]
        ELSE [b EXCEPT !.events = [i \in EventIds \ {event_id} |-> events[i]],
                       !.note = IF \E r \in rsvps : r.event_id = event_id
                                THEN "had_rsvps" ELSE "no_rsvps",
                       !.resp = "redirect:list_events"]

admin_event_delete(c, event_id) ==
    LET g == committee_or_admin_required(c)
        b == [Base(c) EXCEPT !.ran = TRUE]
    IN  IF g # "pass" THEN Rejected(c, g)
        ELSE IF event_id \notin EventIds THEN [b EXCEPT !.resp = "404"]
        ELSE [b EXCEPT !.rsvps = {r \in rsvps : r.event_id # event_id},
                       !.events = [i \in EventIds \ {event_id} |-> events[i]],
                       !.note = IF \E r \in rsvps : r.event_id = event_id
                                THEN "had_rsvps" ELSE "no_rsvps",
                       !.resp = "redirect:list_events"]

event_rsvps(c, event_id) ==
    LET g == committee_or_admin_required(c)
        b == [Base(c) EXCEPT !.ran = TRUE]
    IN  IF g # "pass" THEN Rejected(c, g)
        ELSE IF event_id \notin EventIds THEN [b EXCEPT !.resp = "404"]
        ELSE [b EXCEPT !.resp = "200:page"]

-----------------------------------------------------------------------------
(* The RSVP toggle, HTML and JSON.  Each is its reads (guard, current user, *)
(* event, form or body, existing row) followed by its commit and the calls  *)
(* after it.                                                                *)

Idle == [op |-> "idle"]

\* Variant: the two statuses are swapped.
StatusOfSwapped(is_going) == IF is_going THEN "cancelled" ELSE "going"

StatusOf(is_going) == IF is_going THEN "going" ELSE "cancelled"

\* is_going = (action == "going")
FormIsGoing(action) == action = "going"

\* is_going = bool(body.get("going", False))
JsonIsGoing(going) == going = "true"

\* The reads of a toggle: an early response, or the request as it stands
\* before db.session.commit().
ToggleRead(op, c, event_id, is_going) ==
    LET g == login_required(c)
        uid == get_current_user(c)
        b == [Base(c) EXCEPT !.ran = TRUE]
    IN  IF g # "pass" THEN [early |-> TRUE, result |-> Rejected(c, g), req |-> Idle]
        ELSE IF event_id \notin EventIds
        THEN [early |-> TRUE, result |-> [b EXCEPT !.resp = "404"], req |-> Idle]
        ELSE IF uid = 0
        THEN [early |-> TRUE,
              result |-> [b EXCEPT !.resp = "500", !.note = "AttributeError"],
              req |-> Idle]
        ELSE [early |-> FALSE, result |-> b,
              req |-> [op |-> op, client |-> c, uid |-> uid, eid |-> event_id,
                       status |-> StatusOf(is_going),
                       loaded |-> RsvpLookup(rsvps, uid, event_id)]]

\* toggle_rsvp from db.session.commit() on.  The objects are expired by the
\* commit, so building the relay payload or the audit record reloads the
\* event and fails when its row is gone.
toggle_rsvp_commit(req, relay, sink) ==
    LET b == [Base(req.client) EXCEPT !.ran = TRUE, !.note = req.loaded]
        fl == RsvpFlush(rsvps, req.uid, req.eid, req.loaded, req.status)
        gone == req.eid \notin EventIds
        cf == call_rsvp_cloud_function(relay)
        la == log_action(sink)
    IN  IF ~fl.ok THEN [b EXCEPT !.resp = "500", !.note = fl.error]
        ELSE IF gone
        THEN [b EXCEPT !.rsvps = fl.rsvps, !.resp = "500", !.note = "ObjectDeletedError",
                       !.notify = IF relay = "unconfigured" THEN cf.notify ELSE "none"]
        ELSE IF cf.raised
        THEN [b EXCEPT !.rsvps = fl.rsvps, !.notify = cf.notify, !.resp = "500"]
        ELSE [b EXCEPT !.rsvps = fl.rsvps, !.notify = cf.notify, !.audit = la.audit,
                       !.resp = IF la.raised THEN "500" ELSE "redirect:event_detail"]

\* api_toggle_rsvp from db.session.commit() on.
api_toggle_rsvp_commit(req, relay) ==
    LET b == [Base(req.client) EXCEPT !.ran = TRUE, !.note = req.loaded]
        fl == RsvpFlush(rsvps, req.uid, req.eid, req.loaded, req.status)
        gone == req.eid \notin EventIds
        cf == call_rsvp_cloud_function(relay)
    IN  IF ~fl.ok THEN [b EXCEPT !.resp = "500", !.note = fl.error]
        ELSE IF gone
        THEN [b EXCEPT !.rsvps = fl.rsvps, !.resp = "500", !.note = "ObjectDeletedError",
                       !.notify = IF relay = "unconfigured" THEN cf.notify ELSE "none"]
        ELSE [b EXCEPT !.rsvps = fl.rsvps, !.notify = cf.notify,
                       !.resp = IF cf.raised THEN "500" ELSE "200:json"]

toggle_rsvp(c, event_id, action, relay, sink) ==
    LET rd == ToggleRead("toggle_rsvp", c, event_id, FormIsGoing(action))
    IN  IF rd.early THEN rd.result ELSE toggle_rsvp_commit(rd.req, relay, sink)

api_toggle_rsvp(c, event_id, going, relay) ==
    LET rd == ToggleRead("api_toggle_rsvp", c, event_id, JsonIsGoing(going))
    IN  IF rd.early THEN rd.result ELSE api_toggle_rsvp_commit(rd.req, relay)

-----------------------------------------------------------------------------
(* Actions *)

Init ==
    /\ users = <<>>
    /\ events = <<>>
    /\ rsvps = {}
    /\ session = [c \in Clients |-> NoSession]
    /\ inflight = [w \in Workers |-> Idle]
    /\ last = [op |-> "init", resp |-> "none", ran |-> FALSE, audit |-> "none",
               notify |-> "none", note |-> None]
    /\ lastToggle = {}

\* The request of browser c to route op ended with outcome r.
Done(op, c, r) ==
    /\ users' = r.users
    /\ events' = r.events
    /\ rsvps' = r.rsvps
    /\ session' = [session EXCEPT ![c] = r.sess]
    /\ last' = [op |-> op, resp |-> r.resp, ran |-> r.ran, audit |-> r.audit,
                notify |-> r.notify, note |-> r.note]

Succeeded(r) == r.ran /\ r.resp \in {"200:json", "redirect:event_detail"}

\* History: the pair's last toggle asked for `asked`.
Toggled(uid, eid, asked) ==
    {t \in lastToggle : ~(t.user_id = uid /\ t.event_id = eid)}
        \cup {[user_id |-> uid, event_id |-> eid, status |-> asked]}

Register(B) ==
    \E c \in B, method \in Methods, raw \in RawEmails,
       pw \in RegisterPasswords, salt \in Salts :
        /\ Done("register", c, register(c, method, raw, pw, salt))
        /\ UNCHANGED <<inflight, lastToggle>>

Login(B) ==
    \E c \in B, method \in Methods, raw \in RawEmails, pw \in Passwords,
       sink \in Health :
        /\ Done("login", c, login(c, method, raw, pw, sink))
        /\ UNCHANGED <<inflight, lastToggle>>

Logout(B) ==
    \E c \in B :
        /\ Done("logout", c, logout(c))
        /\ UNCHANGED <<inflight, lastToggle>>

MakeMeAdmin(B) ==
    \E c \in B :
        /\ Done("make_me_admin", c, make_me_admin(c))
        /\ UNCHANGED <<inflight, lastToggle>>

AdminUsers(B) ==
    \E c \in B, method \in Methods, user_id \in 1..(Len(users) + 1),
       is_committee \in BOOLEAN, position \in Positions, sink \in Health :
        /\ Done("admin_users", c,
                admin_users(c, method, user_id, is_committee, position, sink))
        /\ UNCHANGED <<inflight, lastToggle>>

AdminLogs(B) ==
    \E c \in B, sink \in Health :
        /\ Done("admin_logs", c, admin_logs(c, sink))
        /\ UNCHANGED <<inflight, lastToggle>>

MyRsvps(B) ==
    \E c \in B :
        /\ Done("my_rsvps", c, my_rsvps(c))
        /\ UNCHANGED <<inflight, lastToggle>>

AdminEventNew(B) ==
    \E c \in B, method \in Methods, title \in Titles :
        /\ NextEventId <= MaxEventId
        /\ Done("admin_event_new", c, admin_event_new(c, method, title))
        /\ UNCHANGED <<inflight, lastToggle>>

AdminEventEdit(B) ==
    \E c \in B, method \in Methods, event_id \in 1..MaxEventId, title \in Titles :
        /\ Done("admin_event_edit", c, admin_event_edit(c, method, event_id, title))
        /\ UNCHANGED <<inflight, lastToggle>>

AdminEventDelete(B) ==
    \E c \in B, event_id \in 1..MaxEventId :
        LET r == admin_event_delete(c, event_id)
        IN  /\ Done("admin_event_delete", c, r)
            /\ lastToggle' = IF r.ran /\ r.resp = "redirect:list_events"
                             THEN {t \in lastToggle : t.event_id # event_id}
                             ELSE lastToggle
            /\ UNCHANGED inflight

EventRsvps(B) ==
    \E c \in B, event_id \in 1..MaxEventId :
        /\ Done("event_rsvps", c, event_rsvps(c, event_id))
        /\ UNCHANGED <<inflight, lastToggle>>

ToggleRsvp(B) ==
    \E c \in B, event_id \in 1..MaxEventId, action \in FormActions,
       relay \in Health, sink \in Health :
        LET r == toggle_rsvp(c, event_id, action, relay, sink)
        IN  /\ Done("toggle_rsvp", c, r)
            /\ lastToggle' = IF Succeeded(r)
                             THEN Toggled(get_current_user(c), event_id,
                                          IF action = "going" THEN "going" ELSE "cancelled")
                             ELSE lastToggle
            /\ UNCHANGED inflight

ApiToggleRsvp(B) ==
    \E c \in B, event_id \in 1..MaxEventId, going \in JsonGoing,
       relay \in Health :
        LET r == api_toggle_rsvp(c, event_id, going, relay)
        IN  /\ Done("api_toggle_rsvp", c, r)
            /\ lastToggle' = IF Succeeded(r)
                             THEN Toggled(get_current_user(c), event_id,
                                          IF going = "true" THEN "going" ELSE "cancelled")
                             ELSE lastToggle
            /\ UNCHANGED inflight

Next ==
    \/ Register(OneBrowser)
    \/ Login(OneBrowser)
    \/ Logout(OneBrowser)
    \/ MakeMeAdmin(OneBrowser)
    \/ AdminUsers(OneBrowser)
    \/ AdminLogs(OneBrowser)
    \/ MyRsvps(OneBrowser)
    \/ AdminEventNew(OneBrowser)
    \/ AdminEventEdit(OneBrowser)
    \/ AdminEventDelete(OneBrowser)
    \/ EventRsvps(OneBrowser)
    \/ ToggleRsvp(OneBrowser)
    \/ ApiToggleRsvp(OneBrowser)

Spec == Init /\ [][Next]_vars

\* Two browsers: registration, login and logout, role management and the
\* role-guarded routes.
NextTwo ==
    \/ Register(Clients)
    \/ Login(Clients)
    \/ Logout(Clients)
    \/ MakeMeAdmin(Clients)
    \/ AdminUsers(Clients)
    \/ AdminLogs(Clients)
    \/ EventRsvps(Clients)

SpecTwo == Init /\ [][NextTwo]_vars

-----------------------------------------------------------------------------
(* Interleaved requests: a worker runs a toggle's reads in one step and its *)
(* commit, with the calls after it, in a later one.                         *)

ToggleRsvpBegin(B) ==
    \E w \in Workers, c \in B, event_id \in 1..MaxEventId, action \in FormActions :
        LET rd == ToggleRead("toggle_rsvp", c, event_id, FormIsGoing(action))
            asked == IF action = "going" THEN "going" ELSE "cancelled"
        IN  /\ inflight[w] = Idle
            /\ IF rd.early
               THEN /\ Done("toggle_rsvp", c, rd.result)
                    /\ UNCHANGED inflight
               ELSE /\ inflight' = [inflight EXCEPT ![w] = [asked |-> asked] @@ rd.req]
                    /\ UNCHANGED <<users, events, rsvps, session, last>>
            /\ UNCHANGED lastToggle

ApiToggleRsvpBegin(B) ==
    \E w \in Workers, c \in B, event_id \in 1..MaxEventId, going \in JsonGoing :
        LET rd == ToggleRead("api_toggle_rsvp", c, event_id, JsonIsGoing(going))
            asked == IF going = "true" THEN "going" ELSE "cancelled"
        IN  /\ inflight[w] = Idle
            /\ IF rd.early
               THEN /\ Done("api_toggle_rsvp", c, rd.result)
                    /\ UNCHANGED inflight
               ELSE /\ inflight' = [inflight EXCEPT ![w] = [asked |-> asked] @@ rd.req]
                    /\ UNCHANGED <<users, events, rsvps, session, last>>
            /\ UNCHANGED lastToggle

ToggleCommit ==
    \E w \in Workers, relay \in Health, sink \in Health :
        /\ inflight[w] # Idle
        /\ LET req == inflight[w]
               r == IF req.op = "toggle_rsvp"
                    THEN toggle_rsvp_commit(req, relay, sink)
                    ELSE api_toggle_rsvp_commit(req, relay)
           IN  /\ Done(req.op, req.client, r)
               /\ lastToggle' = IF Succeeded(r)
                                THEN Toggled(req.uid, req.eid, req.asked)
                                ELSE lastToggle
        /\ inflight' = [inflight EXCEPT ![w] = Idle]

\* The state in which the interleaved runs start: one user has registered,
\* logged in and called /make-me-admin (a state Spec reaches in three requests).
InitConc ==
    /\ users = << [email |-> <<"a">>,
                   password_hash |-> generate_password_hash("pw1", "s1"),
                   role |-> "admin",
                   committee_position |-> None] >>
    /\ events = <<>>
    /\ rsvps = {}
    /\ session = [c \in Clients |->
                    IF c \in OneBrowser THEN [user |-> <<"a">>, role |-> "admin"]
                    ELSE NoSession]
    /\ inflight = [w \in Workers |-> Idle]
    /\ last = [op |-> "make_me_admin", resp |-> "200:You are now admin.", ran |-> TRUE,
               audit |-> "none", notify |-> "none", note |-> None]
    /\ lastToggle = {}

NextConc ==
    \/ AdminEventNew(OneBrowser)
    \/ AdminEventDelete(OneBrowser)
    \/ ToggleRsvpBegin(OneBrowser)
    \/ ApiToggleRsvpBegin(OneBrowser)
    \/ ToggleCommit

SpecConc == InitConc /\ [][NextConc]_vars

-----------------------------------------------------------------------------
(* Sessions that outlive the store: the session is a cookie the browser     *)
(* keeps, signed with SECRET_KEY, and the store is whatever DATABASE_URL    *)
(* names, so a store that is replaced or recreated empty leaves the         *)
(* browsers' sessions as they are.                                          *)

Home(B) ==
    \E c \in B :
        /\ Done("home", c, home(c))
        /\ UNCHANGED <<inflight, lastToggle>>

EventDetail(B) ==
    \E c \in B, event_id \in 1..MaxEventId :
        /\ Done("event_detail", c, event_detail(c, event_id))
        /\ UNCHANGED <<inflight, lastToggle>>

StoreReplaced ==
    /\ users # <<>>
    /\ users' = <<>>
    /\ events' = <<>>
    /\ rsvps' = {}
    /\ lastToggle' = {}
    /\ last' = [op |-> "store_replaced", resp |-> "none", ran |-> FALSE,
                audit |-> "none", notify |-> "none", note |-> None]
    /\ UNCHANGED <<session, inflight>>

NextStale ==
    \/ Register(OneBrowser)
    \/ Login(OneBrowser)
    \/ Logout(OneBrowser)
    \/ Home(OneBrowser)
    \/ EventDetail(OneBrowser)
    \/ MyRsvps(OneBrowser)
    \/ MakeMeAdmin(OneBrowser)
    \/ AdminEventNew(OneBrowser)
    \/ ToggleRsvp(OneBrowser)
    \/ ApiToggleRsvp(OneBrowser)
    \/ StoreReplaced

SpecStale == Init /\ [][NextStale]_vars

-----------------------------------------------------------------------------
(* Properties *)

\* The handler left the three tables as they are.
StoreUnchanged(r) == r.users = users /\ r.events = events /\ r.rsvps = rsvps

\* Every outcome a request of browser c to a route can have in this state,
\* over all its inputs and all behaviours of the collaborators.
AdminOnlyResults(c) ==
    {admin_users(c, m, u, ic, p, sk) :
        m \in Methods, u \in 1..(Len(users) + 1), ic \in BOOLEAN,
        p \in Positions, sk \in Health}
    \cup {admin_logs(c, sk) : sk \in Health}

CommitteeResults(c) ==
    {admin_event_new(c, m, t) : m \in Methods, t \in Titles}
    \cup {admin_event_edit(c, m, e, t) : m \in Methods, e \in 1..MaxEventId, t \in Titles}
    \cup {admin_event_delete(c, e) : e \in 1..MaxEventId}
    \cup {event_rsvps(c, e) : e \in 1..MaxEventId}

LoginOnlyResults(c) ==
    {make_me_admin(c), my_rsvps(c)}
    \cup {toggle_rsvp(c, e, a, rl, sk) :
            e \in 1..MaxEventId, a \in FormActions, rl \in Health, sk \in Health}
    \cup {api_toggle_rsvp(c, e, g, rl) :
            e \in 1..MaxEventId, g \in JsonGoing, rl \in Health}

\* C1: there is at most one RSVP row per (user, event), and a pair that was
\* toggled has exactly one row, whose status is the one its most recent toggle
\* asked for (going, otherwise cancelled).
C1_OneRowWithLastToggledStatus ==
    /\ \A r1, r2 \in rsvps :
          (r1.user_id = r2.user_id /\ r1.event_id = r2.event_id) => r1 = r2
    /\ \A t \in lastToggle : RsvpRows(rsvps, t.user_id, t.event_id) = {t}

\* C1 witness: the last request was a toggle that found the pair's row "going",
\* and the user now has one "cancelled" row for an event and no "going" row.
C1_Witness ==
    /\ last.op \in {"toggle_rsvp", "api_toggle_rsvp"}
    /\ last.resp \in {"redirect:event_detail", "200:json"}
    /\ last.note = "going"
    /\ LET uid == get_current_user("c1")
       IN  /\ uid # 0
           /\ \A r \in rsvps : r.user_id = uid => r.status = "cancelled"
           /\ \E e \in EventIds :
                 /\ RsvpRows(rsvps, uid, e)
                      = {[user_id |-> uid, event_id |-> e, status |-> "cancelled"]}
                 /\ [user_id |-> uid, event_id |-> e, status |-> "cancelled"] \in lastToggle

\* C2: every RSVP row refers to an existing event, and a delete that went
\* through leaves, in the one state it commits, neither the event nor any RSVP
\* row that refers to it.
C2_NoOrphanedRsvps ==
    /\ \A r \in rsvps : r.event_id \in EventIds
    /\ \A c \in Clients, e \in 1..MaxEventId :
          LET d == admin_event_delete(c, e)
          IN  d.resp = "redirect:list_events" =>
                /\ e \notin DOMAIN d.events
                /\ \A r \in d.rsvps : r.event_id # e /\ r.event_id \in DOMAIN d.events

\* C2 witness: the last request deleted an event that had RSVP rows.
C2_Witness ==
    /\ last.op = "admin_event_delete"
    /\ last.resp = "redirect:list_events"
    /\ last.note = "had_rsvps"
    /\ users # <<>>

\* C3: a toggle whose insert is rejected by the composite primary key, because
\* a concurrent toggle inserted the pair's row first, does not end in a server
\* error.
C3_InsertConflictCaught ==
    (last.op \in {"toggle_rsvp", "api_toggle_rsvp"} /\ last.note = "IntegrityError")
        => last.resp # "500"

C5_LoginGate ==
    \A c \in Clients :
        ~Truthy(session[c].user) =>
            \A r \in AdminOnlyResults(c) \cup CommitteeResults(c) \cup LoginOnlyResults(c) :
                r.resp = "redirect:login" /\ ~r.ran /\ StoreUnchanged(r)
                    /\ r.sess = session[c]

\* C5 witness: with a user and an event in the store, a browser that is not
\* logged in has just been redirected from the JSON toggle.
C5_Witness ==
    /\ last.op = "api_toggle_rsvp"
    /\ last.resp = "redirect:login"
    /\ ~last.ran
    /\ ~Truthy(session["c1"].user)
    /\ users # <<>>
    /\ EventIds # {}
    /\ rsvps = {}

\* The stored hash was made from this password.
MadeFrom(pwhash, password) ==
    \E salt \in Salts : pwhash = generate_password_hash(password, salt)

\* The character is not an upper-case letter or a blank.
PlainChar(ch) == ch \notin {"A", "B", " "}

\* The raw text is this email up to case and surrounding blanks.
SameEmail(raw, email) ==
    \E i \in 0..Len(raw), j \in 0..Len(raw) :
        /\ i <= j
        /\ \A k \in 1..i : raw[k] = " "
        /\ \A k \in (j + 1)..Len(raw) : raw[k] = " "
        /\ j - i = Len(email)
        /\ \A k \in 1..Len(email) :
              \/ raw[i + k] = email[k]
              \/ (raw[i + k] = "A" /\ email[k] = "a")
              \/ (raw[i + k] = "B" /\ email[k] = "b")

\* C6: a login POST sets the session exactly when the email, up to case and
\* surrounding blanks, is that of a registered user whose hash was made from
\* the password given; the session then holds that user's email and stored
\* role.  Otherwise the session stays as it is and the answer is "Invalid
\* credentials", for an unknown email as for a wrong password.  The tables
\* are not changed either way.
C6_Login ==
    \A c \in Clients, raw \in RawEmails, pw \in Passwords, sk \in Health :
        LET r == login(c, "POST", raw, pw, sk)
            known == {i \in UserIds : SameEmail(raw, users[i].email)}
            good == {i \in known : MadeFrom(users[i].password_hash, pw)}
        IN  /\ StoreUnchanged(r)
            /\ IF good # {}
               THEN /\ \E i \in good :
                          r.sess = [user |-> users[i].email, role |-> users[i].role]
                    /\ r.resp = "redirect:home"
               ELSE /\ r.sess = session[c]
                    /\ r.resp = "200:Invalid credentials"

\* C6 witness: the last request was a login that succeeded, typed with
\* another case than the stored email, by a user whose stored role is not
\* the role given at registration.
C6_Witness ==
    /\ last.op = "login"
    /\ last.resp = "redirect:home"
    /\ LET uid == get_current_user("c1")
       IN  /\ uid # 0
           /\ session["c1"].role = users[uid].role
           /\ users[uid].role = "committee"

\* C7: a registration POST whose email, up to case and surrounding blanks, is
\* that of a stored user answers "User already exists" and leaves the users
\* table as it is; any other adds one user, with the normalized email and the
\* role member, after the stored ones.  Every stored email is free of
\* upper-case letters and blanks, and no two users share one.
C7_Register ==
    /\ \A i \in UserIds : \A k \in 1..Len(users[i].email) : PlainChar(users[i].email[k])
    /\ \A i, j \in UserIds : users[i].email = users[j].email => i = j
    /\ \A c \in Clients, raw \in RawEmails, pw \in RegisterPasswords, salt \in Salts :
          LET r == register(c, "POST", raw, pw, salt)
          IN  /\ r.events = events /\ r.rsvps = rsvps /\ r.sess = session[c]
              /\ IF \E i \in UserIds : SameEmail(raw, users[i].email)
                 THEN r.users = users /\ r.resp = "200:User already exists"
                 ELSE /\ Len(r.users) = Len(users) + 1
                      /\ SubSeq(r.users, 1, Len(users)) = users
                      /\ r.users[Len(r.users)].role = "member"
                      /\ SameEmail(raw, r.users[Len(r.users)].email)
                      /\ r.resp = "redirect:login"

\* C7 witness: two users are stored and the last request was a registration,
\* typed with another case than a stored email, that was refused.
C7_Witness ==
    /\ last.op = "register"
    /\ last.resp = "200:User already exists"
    /\ last.note = "normalized"
    /\ Len(users) = 2

\* Side effects of an outcome: audit records written, relay calls made.
AuditRecords(r) == IF r.audit = "written" THEN 1 ELSE 0
RelayCalls(r) == IF r.notify \in {"sent", "failed"} THEN 1 ELSE 0

\* C8: from the same state, for the same browser, event and intent and the
\* same collaborators, the HTML toggle and the JSON toggle leave the same RSVP
\* rows, make the same number of relay calls and write the same number of
\* audit records.
C8_ToggleVariantsAgree ==
    \A c \in Clients, e \in 1..MaxEventId, going \in BOOLEAN, rl \in Health, sk \in Health :
        LET h == toggle_rsvp(c, e, IF going THEN "going" ELSE "cancelled", rl, sk)
            a == api_toggle_rsvp(c, e, IF going THEN "true" ELSE "false", rl)
        IN  /\ h.rsvps = a.rsvps
            /\ RelayCalls(h) = RelayCalls(a)
            /\ AuditRecords(h) = AuditRecords(a)

\* One request of browser c to each role-guarded route.
AdminOnlyProbes(c) ==
    {admin_users(c, "GET", 1, FALSE, "Chair", "ok"), admin_logs(c, "ok")}

CommitteeProbes(c) ==
    {admin_event_new(c, "GET", "t1"), admin_event_edit(c, "GET", 1, "t1"),
     admin_event_delete(c, 1), event_rsvps(c, 1)}

\* A logged-in browser's access to the guarded routes is the one its session
\* role gives, whatever role the users table holds for it now.
AccessFollowsSessionRole ==
    \A c \in Clients :
        Truthy(session[c].user) =>
            /\ \A r \in AdminOnlyProbes(c) : r.ran <=> session[c].role = "admin"
            /\ \A r \in CommitteeProbes(c) :
                  r.ran <=> session[c].role \in {"committee", "admin"}

\* C9 as claimed: access follows the session role, and a browser's session
\* role changes only in a login or a logout.
C9_SessionRoleFixedBetweenLogins ==
    [][ /\ AccessFollowsSessionRole
        /\ \A c \in Clients :
              session'[c].role # session[c].role => last'.op \in {"login", "logout"}
      ]_vars

\* C9, amended: access follows the session role, and a browser's session role
\* changes only in a login or a logout, or to admin in that browser's own
\* /make-me-admin request; a role update by /admin/users changes no session.
C9_SessionRoleSnapshot ==
    [][ /\ AccessFollowsSessionRole
        /\ \A c \in Clients :
              session'[c].role # session[c].role =>
                  \/ last'.op \in {"login", "logout"}
                  \/ last'.op = "make_me_admin" /\ session'[c].role = "admin"
        /\ last'.op = "admin_users" => session' = session
      ]_vars

\* C9 witness: the last request was a role update by /admin/users, and a
\* browser logged in as a member belongs to a user who is stored as committee.
C9_Witness ==
    /\ last.op = "admin_users"
    /\ last.resp = "redirect:admin_users"
    /\ \E c \in Clients :
          /\ Truthy(session[c].user)
          /\ session[c].role = "member"
          /\ get_current_user(c) # 0
          /\ users[get_current_user(c)].role = "committee"

\* C10: for the two toggles, the login and the role update, the tables, the
\* session and the response are the same whether the audit sink and the relay
\* answer, fail or are not configured, and neither call raises.
C10_CollaboratorsDoNotMatter ==
    /\ \A sk \in Health : ~log_action(sk).raised
    /\ \A rl \in Health : ~call_rsvp_cloud_function(rl).raised
    /\ \A c \in Clients, rl \in Health, sk \in Health :
          LET Same(x, y) == /\ x.users = y.users /\ x.events = y.events
                            /\ x.rsvps = y.rsvps /\ x.sess = y.sess
                            /\ x.resp = y.resp
          IN  /\ (rl # "ok" \/ sk # "ok") =>
                    \A e \in 1..MaxEventId, a \in FormActions :
                        Same(toggle_rsvp(c, e, a, rl, sk), toggle_rsvp(c, e, a, "ok", "ok"))
              /\ (rl # "ok" /\ sk = "ok") =>
                    \A e \in 1..MaxEventId, g \in JsonGoing :
                        Same(api_toggle_rsvp(c, e, g, rl), api_toggle_rsvp(c, e, g, "ok"))
              /\ (sk # "ok" /\ rl = "ok") =>
                    /\ \A raw \in RawEmails, pw \in Passwords :
                          Same(login(c, "POST", raw, pw, sk), login(c, "POST", raw, pw, "ok"))
                    /\ \A u \in 1..(Len(users) + 1), ic \in BOOLEAN, p \in Positions :
                          Same(admin_users(c, "POST", u, ic, p, sk),
                               admin_users(c, "POST", u, ic, p, "ok"))

\* C10 witness: the last request was an HTML toggle during which both the
\* relay call and the audit write failed; it committed the row and answered
\* with its usual redirect.
C10_Witness ==
    /\ last.op = "toggle_rsvp"
    /\ last.notify = "failed"
    /\ last.audit = "failed"
    /\ last.resp = "redirect:event_detail"
    /\ \E t \in lastToggle : t.status = "going" /\ t \in rsvps

-----------------------------------------------------------------------------
\* C11: the my-rsvps page of the current user lists exactly the events for
\* which the user has an RSVP row of status "going": an event whose last toggle
\* by the user asked for going is listed, and one whose last toggle asked for
\* a cancel is not listed while its row is still there with status "cancelled".
C11_ListingIsGoingRows ==
    \A c \in OneBrowser :
        LET uid == get_current_user(c)
            page == my_rsvps(c)
        IN  page.resp = "200:page" =>
              /\ page.rows = {e \in 1..MaxEventId :
                                [user_id |-> uid, event_id |-> e, status |-> "going"]
                                    \in rsvps}
              /\ \A t \in lastToggle :
                    t.user_id = uid =>
                      /\ t.status = "going" => t.event_id \in page.rows
                      /\ t.status = "cancelled" =>
                            /\ t.event_id \notin page.rows
                            /\ [user_id |-> uid, event_id |-> t.event_id,
                                status |-> "cancelled"] \in rsvps

\* C11 witness: the current user's toggle has just turned a "going" row into
\* a "cancelled" one, the row is still stored and the listing is empty.
C11_Witness ==
    /\ last.op \in {"toggle_rsvp", "api_toggle_rsvp"}
    /\ last.resp \in {"redirect:event_detail", "200:json"}
    /\ last.note = "going"
    /\ my_rsvps("c1").resp = "200:page"
    /\ my_rsvps("c1").rows = {}
    /\ \E t \in lastToggle :
          /\ t.user_id = get_current_user("c1")
          /\ t.status = "cancelled"
          /\ t \in rsvps

-----------------------------------------------------------------------------
\* The session of browser c names a user that the store does not have.
StaleSession(c) == Truthy(session[c].user) /\ get_current_user(c) = 0

\* Every outcome a request of browser c can have, in this state, on the
\* routes that resolve the current user from the session.
CurrentUserResults(c) ==
    LoginOnlyResults(c)
    \cup {admin_event_new(c, m, t) : m \in Methods, t \in Titles}
    \cup {event_detail(c, e) : e \in 1..MaxEventId}
    \cup {home(c)}

\* C12: with a stale session, whose email matches no user row, every handler
\* that resolves the current user from the session treats the request as one
\* with no current user and ends in a defined outcome: none fails on the
\* missing user.
C12_StaleSessionIsNoCurrentUser ==
    \A c \in OneBrowser :
        StaleSession(c) =>
            \A r \in CurrentUserResults(c) :
                r.resp # "500" /\ r.note # "AttributeError"

-----------------------------------------------------------------------------
\* The role columns of a users row.
RoleColumns(u) == <<u.role, u.committee_position>>

\* C13: a users row is created only by a registration, as a member with no
\* committee position; no request removes a row or changes its email; a row's
\* role or committee position changes only in a request to admin_users or to
\* make_me_admin (so login, logout, other registrations, event create, edit
\* and delete, and RSVP toggles leave them as they are); and every stored
\* role is one of member, committee, admin.
C13_UserLifecycle ==
    [][ /\ Len(users') >= Len(users)
        /\ \A i \in 1..Len(users) :
              /\ users'[i].email = users[i].email
              /\ RoleColumns(users'[i]) # RoleColumns(users[i])
                    => last'.op \in {"admin_users", "make_me_admin"}
        /\ \A i \in (Len(users) + 1)..Len(users') :
              /\ last'.op = "register"
              /\ i = Len(users) + 1
              /\ RoleColumns(users'[i]) = <<"member", None>>
        /\ \A i \in 1..Len(users') : users'[i].role \in Roles
      ]_vars

\* C13 witness: a user was made a committee member with a position, a second
\* user registered after that, and the request just served, a toggle that
\* went through, has left both rows as they were.
C13_Witness ==
    /\ Len(users) = 2
    /\ RoleColumns(users[1]) = <<"committee", "Chair">>
    /\ RoleColumns(users[2]) = <<"member", None>>
    /\ last.op \in {"toggle_rsvp", "api_toggle_rsvp"}
    /\ last.resp \in {"redirect:event_detail", "200:json"}

-----------------------------------------------------------------------------
\* C14: when a toggle for an event reads the event before a delete of that
\* event commits and writes its RSVP after it, no committed state holds an
\* RSVP row whose event is gone.
C14_NoRsvpForDeletedEvent ==
    {r \in rsvps : r.event_id \notin EventIds} = {}

====
